---- MODULE Spec2Model ----
(***************************************************************************)
(* The block-production worker of consensus/miner/worker.go: the start/stop *)
(* switch, the head-event loop (update), the slot loop (mintLoop), the      *)
(* assembly attempt (mintBlock, commitNewWork, commitTransactions,          *)
(* commitTransaction) and the wall clock they poll.                         *)
(*                                                                         *)
(* Time is counted in tenths of the block interval.  Channels are numbers:  *)
(* worker.quit is the number of the channel it currently holds, an          *)
(* attempt's quit channel is the attempt's own number.                      *)
(***************************************************************************)
EXTENDS Integers, Sequences, FiniteSets, TLC

(* ------------------------------ bounds -------------------------------- *)
\* goroutines ever spawned by start() / by the slot loop, channels ever made
MaxLoops == 2
MaxAttempts == 2
\* the wall clock stops advancing here: shortly after the slot boundary at
\* 2 * Interval for the worker as a whole, after the end of that slot for a
\* single attempt
MaxTime == 21
MaxAttemptTime == 31
\* blocks produced by other candidates
MaxForeign == 1
\* worker.delayDuration, in clock units
MaxDelay == 1
\* the private keys a coinbase may be configured with
MaxKeys == 3

(* ----------------------- protocol parameters -------------------------- *)
\* dpos.BlockInterval(), in clock units
Interval == 10
\* params.BlockGasLimit and params.GasTableInstanse.ActionGas
BlockGasLimit == 4
ActionGas == 1
\* capacity of the head-event channel
chainHeadChanSize == 10
\* worker.Config().SysName, and the coinbase of another candidate's blocks
SysName == "sys"
Foreign == "other"

Loops == 1..MaxLoops
Attempts == 1..MaxAttempts
Senders == 1..2

VARIABLES
    now,            \* time.Now()
    mining,         \* worker.mining
    force,          \* worker.force
    coinbase,       \* worker.coinbase
    delayDuration,  \* worker.delayDuration
    quit,           \* worker.quit: the number of the channel it holds
    quitClosed,     \* the worker.quit channels that were closed
    quitWork,       \* worker.quitWork: 0 is nil, else an attempt's channel
    workClosed,     \* the attempts' quit channels that were closed
    wgWork,         \* worker.wgWork's counter
    loops,          \* the mintLoop goroutines
    attempts,       \* the mintBlock goroutines
    chainHeadCh,    \* the head-event loop's channel: coinbases of the blocks
    head,           \* the chain's current header
    written,        \* blocks persisted by WriteBlockWithState
    events,         \* ChainHead / NewMined events sent
    pool,           \* the transaction pool's pending map
    foreign,        \* blocks of other candidates received so far
    alreadyStarted, \* start() has logged "worker already started"
    panicked,       \* a close of a closed channel ended the process
    snapTest,       \* the state database, snapshot manager and raw database
                    \* of TestSnapshot
    mu,             \* worker.mu: "free" or the function that holds it
    privKeys,       \* worker.privKeys
    pubKeys,        \* worker.pubKeys
    setter,         \* the setCoinbase call in progress
    hook            \* the call of the sign function in progress

workerVars == <<now, mining, force, coinbase, delayDuration, quit, quitClosed, quitWork,
                workClosed, wgWork, loops, attempts, chainHeadCh, head, written, events,
                pool, foreign, alreadyStarted, panicked>>

identVars == <<mu, privKeys, pubKeys, setter, hook>>

vars == <<workerVars, snapTest, identVars>>

(* --------------------------- transactions ----------------------------- *)
\* a transaction's first action: sender, nonce, type, gas, gas price, and
\* whether its execution succeeds
Tx(f, n, t, g, p, ok) ==
    [from |-> f, nonce |-> n, typ |-> t, gas |-> g, price |-> p, valid |-> ok]

NilTx == Tx(0, 0, "nil", 0, 0, FALSE)

Privileged == {"KickedCandidate", "ExitTakeOver"}

\* the account nonces of the genesis state
GenesisRoot == [s \in Senders |-> 1]

NoTxs == [s \in Senders |-> << >>]

\* pending maps the transaction pool may hold: one transaction; a privileged
\* transaction ahead of an ordinary one; stale and future nonces; a
\* transaction larger than the gas left and one whose execution fails
PoolOne ==
    [NoTxs EXCEPT ![1] = << Tx(1, 1, "Transfer", 1, 1, TRUE) >>]

PoolPrivileged ==
    [NoTxs EXCEPT ![1] = << Tx(1, 1, "KickedCandidate", 1, 1, TRUE),
                            Tx(1, 2, "Transfer", 1, 1, TRUE) >>]

PoolNonces ==
    [NoTxs EXCEPT ![1] = << Tx(1, 0, "Transfer", 1, 1, TRUE),
                            Tx(1, 1, "Transfer", 4, 1, TRUE) >>,
                  ![2] = << Tx(2, 2, "Transfer", 1, 2, TRUE),
                            Tx(2, 3, "Transfer", 1, 2, TRUE) >>]

PoolGas ==
    [NoTxs EXCEPT ![1] = << Tx(1, 1, "Transfer", 4, 2, TRUE),
                            Tx(1, 2, "Transfer", 1, 2, TRUE) >>,
                  ![2] = << Tx(2, 1, "ExitTakeOver", 1, 3, TRUE),
                            Tx(2, 2, "Transfer", 1, 1, FALSE),
                            Tx(2, 3, "Transfer", 1, 1, TRUE) >>]

\* two transactions of one sender that use up the gas limit exactly
PoolFill ==
    [NoTxs EXCEPT ![1] = << Tx(1, 1, "Transfer", 3, 2, TRUE),
                            Tx(1, 2, "Transfer", 1, 2, TRUE) >>]

(* ------------------------- the ordering queue ------------------------- *)
\* the order of two senders' head transactions: price first, then sender
Before(a, b) == a.price > b.price \/ (a.price = b.price /\ a.from < b.from)

RECURSIVE Insert(_, _)
Insert(l, q) ==
    IF q = << >> THEN << l >>
    ELSE IF Before(Head(l), Head(Head(q))) THEN << l >> \o q
         ELSE << Head(q) >> \o Insert(l, Tail(q))

\* types.NewTransactionsByPriceAndNonce: the senders' nonce-ordered lists,
\* ordered by the price of each list's head
NewTransactionsByPriceAndNonce(pending) ==
    LET Build[s \in 0..2] ==
            IF s = 0 THEN << >>
            ELSE IF pending[s] = << >> THEN Build[s - 1]
                 ELSE Insert(pending[s], Build[s - 1])
    IN Build[2]

Peek(q) == IF q = << >> THEN NilTx ELSE Head(Head(q))

Shift(q) ==
    IF q = << >> THEN q
    ELSE IF Len(Head(q)) > 1 THEN Insert(Tail(Head(q)), Tail(q))
         ELSE Tail(q)

Pop(q) == IF q = << >> THEN q ELSE Tail(q)

(* ------------------------------ the chain ----------------------------- *)
\* a header: number, slot timestamp, producer, and the account nonces of the
\* state at its root
Header(n, t, c, r) == [number |-> n, time |-> t, coinbase |-> c, root |-> r]

NilHeader == Header(-1, -1, "", GenesisRoot)

\* a block: its header, its transactions and receipts, whether it was sealed,
\* and the attempt that built it
Block(h, txs, rcs, sealed, a) ==
    [header |-> h, txs |-> txs, receipts |-> rcs, sealed |-> sealed, by |-> a]

NilBlock == Block(NilHeader, << >>, << >>, FALSE, 0)

\* dpos.Slot: the slot a time falls in
Slot(t) == (t \div Interval) * Interval

\* processor.ApplyTransaction's verdict on a transaction, given the gas pool
\* and the state's account nonces
ApplyTransaction(tx, gas, state) ==
    IF tx.nonce < state[tx.from] THEN "ErrNonceTooLow"
    ELSE IF tx.nonce > state[tx.from] THEN "ErrNonceTooHigh"
    ELSE IF tx.gas > gas THEN "ErrGasLimitReached"
    ELSE IF ~tx.valid THEN "ErrOther"
    ELSE "nil"

Receipt(tx) == << tx.from, tx.nonce >>

(* ---------------------------- the attempt ----------------------------- *)
\* A mintBlock goroutine: where it is (pc), its arguments (ts; its quit
\* channel is its own number), the header it read (parent), its Work
\* (header, state, txs, receipts, gas, cnt, queue, block), the time it sleeps
\* to (wake), and a record of the current commitNewWork call: why the drain
\* loop ended (drainEnd), the transaction it last skipped (skipped), the calls
\* that succeeded (phases), the last error (lastErr) and the verdict on the
\* last applied transaction (lastApply), the senders popped from the queue
\* (popped).
NoAttempt ==
    [pc |-> "none", ts |-> 0, parent |-> NilHeader, header |-> NilHeader,
     state |-> GenesisRoot, txs |-> << >>, receipts |-> << >>, gas |-> 0, cnt |-> 0,
     queue |-> << >>, block |-> NilBlock, wake |-> 0, drainEnd |-> "none",
     skipped |-> NilTx, phases |-> {}, lastErr |-> "none", lastApply |-> "none",
     popped |-> {}]

Spawned(a) == attempts[a].pc # "none"
Running(a) == attempts[a].pc \notin {"none", "done"}

SetAttempt(a, r) == attempts' = [attempts EXCEPT ![a] = r]

\* mintBlock, lines 166-168: publish the quit channel
MintBlockStart(a) ==
    /\ ~panicked
    /\ UNCHANGED <<snapTest, identVars>>
    /\ attempts[a].pc = "mb_start"
    /\ quitWork' = a
    /\ SetAttempt(a, [attempts[a] EXCEPT !.pc = "mb_loop"])
    /\ UNCHANGED <<now, mining, force, coinbase, delayDuration, quit, quitClosed,
                   workClosed, wgWork, loops, chainHeadCh, head, written, events,
                   pool, foreign, alreadyStarted, panicked>>

\* a retry loop that retries at once after every error that is not terminal
AfterError_NoNap(err) ==
    IF err \in {"ignore", "old"} THEN "mb_defer" ELSE "mb_loop"

\* a retry loop that ends on every error but "wait"
AfterError_Terminal(err) == IF err = "wait" THEN "mb_nap" ELSE "mb_defer"

\* mintBlock, lines 214-222: what the retry loop does with commitNewWork's
\* error, by the words of its message: "mint" breaks, "wait" naps and
\* retries, any other retries at once
AfterError(err) ==
    IF err \in {"ignore", "old"} THEN "mb_defer"
    ELSE IF err = "wait" THEN "mb_nap"
    ELSE "mb_loop"

\* commitNewWork returns an error: the Work is dropped; "wait" naps for a
\* tenth of the interval (usleepTo, lines 475-482)
Fail(a, err) ==
    [NoAttempt EXCEPT !.pc = AfterError(err), !.ts = attempts[a].ts, !.lastErr = err,
                      !.wake = IF err = "wait" THEN now + (Interval \div 10) ELSE 0]

\* mintBlock returns
Return(a, err) ==
    [NoAttempt EXCEPT !.pc = "mb_defer", !.ts = attempts[a].ts, !.lastErr = err]

\* mintBlock, lines 179-209: the quit check at the top of the retry loop, the
\* current header and its state (StateAt), the candidacy check
MintBlockLoop(a) ==
    /\ ~panicked
    /\ UNCHANGED <<snapTest, identVars>>
    /\ attempts[a].pc = "mb_loop"
    /\ \/ /\ a \in workClosed
          /\ SetAttempt(a, Return(a, "quit"))
       \/ /\ a \notin workClosed
          /\ \E err \in {"nil", "candidate"} :
                SetAttempt(a, IF err = "nil"
                              THEN [attempts[a] EXCEPT !.pc = "cnw_pre", !.parent = head]
                              ELSE Return(a, err))
    /\ UNCHANGED <<now, mining, force, coinbase, delayDuration, quit, quitClosed, quitWork,
                   workClosed, wgWork, loops, chainHeadCh, head, written, events,
                   pool, foreign, alreadyStarted, panicked>>

\* mintBlock, line 218: the nap after "wait for last block arrived"
MintBlockNap(a) ==
    /\ ~panicked
    /\ UNCHANGED <<snapTest, identVars>>
    /\ attempts[a].pc = "mb_nap"
    /\ now >= attempts[a].wake
    /\ SetAttempt(a, [attempts[a] EXCEPT !.pc = "mb_loop", !.wake = 0])
    /\ UNCHANGED <<now, mining, force, coinbase, delayDuration, quit, quitClosed, quitWork,
                   workClosed, wgWork, loops, chainHeadCh, head, written, events,
                   pool, foreign, alreadyStarted, panicked>>

\* a check that never finds the slot expired
PreError_NoExpiry(t, ts, parent) ==
    IF parent.time >= ts THEN "old" ELSE "nil"

\* a check that lets through a parent of the slot itself
PreError_SameSlotParent(t, ts, parent) ==
    IF t >= ts + Interval THEN "ignore"
    ELSE IF parent.time > ts THEN "old"
    ELSE "nil"

\* a check that lets the attempt through at the very end of its slot
PreError_Strict(t, ts, parent) ==
    IF t > ts + Interval THEN "ignore"
    ELSE IF parent.time >= ts THEN "old"
    ELSE "nil"

\* commitNewWork, lines 261-266: the slot has passed, the parent is not older
\* than the slot
PreError(t, ts, parent) ==
    IF t >= ts + Interval THEN "ignore"
    ELSE IF parent.time >= ts THEN "old"
    ELSE "nil"

CommitNewWorkPre(a) ==
    /\ ~panicked
    /\ UNCHANGED <<snapTest, identVars>>
    /\ attempts[a].pc = "cnw_pre"
    /\ LET err == PreError(now, attempts[a].ts, attempts[a].parent)
       IN SetAttempt(a, IF err = "nil"
                        THEN [attempts[a] EXCEPT !.pc = "cnw_wait", !.lastErr = "none"]
                        ELSE Fail(a, err))
    /\ UNCHANGED <<now, mining, force, coinbase, delayDuration, quit, quitClosed, quitWork,
                   workClosed, wgWork, loops, chainHeadCh, head, written, events,
                   pool, foreign, alreadyStarted, panicked>>

\* commitNewWork, lines 268-272: the parent is more than a slot behind and the
\* slot is young
WaitParent(t, ts, parent) ==
    /\ parent.number > 0
    /\ parent.time + Interval < ts
    /\ t - ts <= (2 * Interval) \div 5

CommitNewWorkWait(a) ==
    /\ ~panicked
    /\ UNCHANGED <<snapTest, identVars>>
    /\ attempts[a].pc = "cnw_wait"
    /\ SetAttempt(a, IF WaitParent(now, attempts[a].ts, attempts[a].parent)
                     THEN Fail(a, "wait")
                     ELSE [attempts[a] EXCEPT !.pc = "cnw_build"])
    /\ UNCHANGED <<now, mining, force, coinbase, delayDuration, quit, quitClosed, quitWork,
                   workClosed, wgWork, loops, chainHeadCh, head, written, events,
                   pool, foreign, alreadyStarted, panicked>>

\* a header that keeps its parent's number
NewHeader_SameNumber(ts, parent, cb) == Header(parent.number, ts, cb, parent.root)

\* commitNewWork, lines 274-284: the header of the block to build
NewHeader(ts, parent, cb) == Header(parent.number + 1, ts, cb, parent.root)

\* a gas pool of twice the limit
GasPoolOf_Double(limit) == 2 * limit

\* commitNewWork, line 301: the Work's gas pool holds the header's gas limit
GasPoolOf(limit) == limit

\* commitNewWork, lines 274-321: the header, the parent's state, the Work,
\* Prepare, the pending transactions in their queue; StateAt, FillForkID,
\* Prepare or Pending may fail
CommitNewWorkBuild(a) ==
    /\ ~panicked
    /\ UNCHANGED <<snapTest, identVars>>
    /\ attempts[a].pc = "cnw_build"
    /\ \E err \in {"nil", "prepare"} :
          SetAttempt(a, IF err = "nil"
                        THEN [attempts[a] EXCEPT
                                !.pc = "ct_loop",
                                !.header = NewHeader(attempts[a].ts, attempts[a].parent, coinbase),
                                !.state = attempts[a].parent.root,
                                !.txs = << >>, !.receipts = << >>,
                                !.gas = GasPoolOf(BlockGasLimit), !.cnt = 0,
                                !.queue = NewTransactionsByPriceAndNonce(pool)]
                        ELSE Fail(a, err))
    /\ UNCHANGED <<now, mining, force, coinbase, delayDuration, quit, quitClosed, quitWork,
                   workClosed, wgWork, loops, chainHeadCh, head, written, events,
                   pool, foreign, alreadyStarted, panicked>>

\* processor.ApplyTransaction: its verdict, and the state and gas pool it
\* leaves: an accepted transaction pays its gas and bumps its sender's nonce,
\* a failed execution leaves its writes in the state
Apply(tx, gas, state) ==
    LET err == ApplyTransaction(tx, gas, state)
    IN [err |-> err,
        state |-> IF err \in {"nil", "ErrOther"}
                  THEN [state EXCEPT ![tx.from] = @ + 1] ELSE state,
        gas |-> IF err = "nil" THEN gas - tx.gas ELSE gas]

\* a commitTransaction that does not revert to its savepoint
commitTransaction_NoRevert(r, tx) ==
    LET out == Apply(tx, r.gas, r.state)
    IN IF out.err # "nil"
       THEN [r EXCEPT !.state = out.state, !.gas = out.gas, !.lastApply = out.err]
       ELSE [r EXCEPT !.state = out.state, !.gas = out.gas, !.lastApply = out.err,
                      !.txs = Append(@, tx), !.receipts = Append(@, Receipt(tx))]

\* a commitTransaction that appends the transaction whatever the verdict
commitTransaction_AppendsFailed(r, tx) ==
    LET snap == r.state
        out == Apply(tx, r.gas, r.state)
    IN [r EXCEPT !.state = IF out.err # "nil" THEN snap ELSE out.state,
                 !.gas = out.gas, !.lastApply = out.err,
                 !.txs = Append(@, tx), !.receipts = Append(@, Receipt(tx))]

\* commitTransaction, lines 439-455: the savepoint, the apply, the revert on
\* an error, the appends on success
commitTransaction(r, tx) ==
    LET snap == r.state
        out == Apply(tx, r.gas, r.state)
    IN IF out.err # "nil"
       THEN [r EXCEPT !.state = snap, !.gas = out.gas, !.lastApply = out.err]
       ELSE [r EXCEPT !.state = out.state, !.gas = out.gas, !.lastApply = out.err,
                      !.txs = Append(@, tx), !.receipts = Append(@, Receipt(tx))]

\* a switch that drops the sender of a stale transaction
QueueAfter_LowPops(err, q) ==
    CASE err = "ErrGasLimitReached" -> Pop(q)
      [] err = "ErrNonceTooLow" -> Pop(q)
      [] err = "ErrNonceTooHigh" -> Pop(q)
      [] err = "nil" -> Shift(q)
      [] OTHER -> Shift(q)

\* a switch that shifts past a transaction of a future nonce
QueueAfter_HighShifts(err, q) ==
    CASE err = "ErrGasLimitReached" -> Pop(q)
      [] err = "ErrNonceTooLow" -> Shift(q)
      [] err = "ErrNonceTooHigh" -> Shift(q)
      [] err = "nil" -> Shift(q)
      [] OTHER -> Shift(q)

\* commitTransactions, lines 405-432: the queue after a verdict
QueueAfter(err, q) ==
    CASE err = "ErrGasLimitReached" -> Pop(q)
      [] err = "ErrNonceTooLow" -> Shift(q)
      [] err = "ErrNonceTooHigh" -> Pop(q)
      [] err = "nil" -> Shift(q)
      [] OTHER -> Shift(q)

\* a loop that drains whatever the time
DrainEnd_NoTimeBudget(r, cancelled, t) ==
    IF cancelled THEN "quit"
    ELSE IF r.gas < ActionGas THEN "gas"
    ELSE IF Peek(r.queue) = NilTx THEN "empty"
    ELSE "none"

\* a loop that stops while the pool still holds the gas of one action
DrainEnd_GasFloor(r, cancelled, t) ==
    IF cancelled THEN "quit"
    ELSE IF r.gas <= ActionGas THEN "gas"
    ELSE IF t + (2 * Interval) \div 5 >= r.header.time + Interval THEN "time"
    ELSE IF Peek(r.queue) = NilTx THEN "empty"
    ELSE "none"

\* commitTransactions, lines 365-386: why the loop ends before this
\* iteration, "none" if it does not (the interval is never MaxUint64)
DrainEnd(r, cancelled, t) ==
    IF cancelled THEN "quit"
    ELSE IF r.gas < ActionGas THEN "gas"
    ELSE IF t + (2 * Interval) \div 5 >= r.header.time + Interval THEN "time"
    ELSE IF Peek(r.queue) = NilTx THEN "empty"
    ELSE "none"

\* commitTransactions, lines 390-398: a privileged transaction in a block
\* whose producer is not the system account
Skips(r) == r.header.coinbase # SysName /\ Peek(r.queue).typ \in Privileged

\* commitTransactions, lines 388-432: one iteration that has a transaction
DrainStep(r) ==
    IF Skips(r) THEN [r EXCEPT !.skipped = Peek(r.queue)]
    ELSE LET w == commitTransaction(r, Peek(r.queue))
         IN [w EXCEPT !.queue = QueueAfter(w.lastApply, r.queue),
                      !.cnt = IF w.lastApply = "nil" THEN @ + 1 ELSE @,
                      !.popped = IF w.lastApply \in {"ErrGasLimitReached", "ErrNonceTooHigh"}
                                 THEN @ \cup {Peek(r.queue).from} ELSE @]

\* commitTransactions, lines 364-433, left alone by the clock and the quit
\* channel: the work when gas or queue run out, or when the head of the queue
\* is a transaction the loop skips
RECURSIVE DrainAll(_)
DrainAll(r) ==
    IF r.gas < ActionGas \/ Peek(r.queue) = NilTx \/ Skips(r) THEN r
    ELSE DrainAll(DrainStep(r))

\* commitNewWork, lines 274-324: the transactions of the block for slot ts on
\* parent by producer cb from the pending map, drained to the end
Assemble(ts, parent, cb, pending) ==
    DrainAll([NoAttempt EXCEPT !.header = NewHeader(ts, parent, cb),
                               !.state = parent.root,
                               !.gas = GasPoolOf(BlockGasLimit),
                               !.queue = NewTransactionsByPriceAndNonce(pending)]).txs

\* commitTransactions, lines 364-433: one iteration of the drain loop
CommitTransactions(a) ==
    /\ ~panicked
    /\ UNCHANGED <<snapTest, identVars>>
    /\ attempts[a].pc = "ct_loop"
    /\ LET why == DrainEnd(attempts[a], a \in workClosed, now)
       IN SetAttempt(a, IF why # "none"
                        THEN [attempts[a] EXCEPT !.pc = "cnw_final", !.drainEnd = why]
                        ELSE DrainStep(attempts[a]))
    /\ UNCHANGED <<now, mining, force, coinbase, delayDuration, quit, quitClosed, quitWork,
                   workClosed, wgWork, loops, chainHeadCh, head, written, events,
                   pool, foreign, alreadyStarted, panicked>>

\* a commitNewWork that seals whatever mining is
Seals_Always(m) == TRUE

\* commitNewWork, line 326: the block is finalized and sealed only while mining
Seals(m) == m = 1

\* commitNewWork, lines 326-332 and 358-359: Finalize while mining, else the
\* local block
CommitNewWorkFinal(a) ==
    /\ ~panicked
    /\ UNCHANGED <<snapTest, identVars>>
    /\ attempts[a].pc = "cnw_final"
    /\ LET r == attempts[a]
       IN IF Seals(mining)
          THEN \E err \in {"nil", "finalize"} :
                  SetAttempt(a, IF err = "nil"
                                THEN [r EXCEPT !.pc = "cnw_seal",
                                               !.header = [r.header EXCEPT !.root = r.state],
                                               !.phases = @ \cup {"Finalize"}]
                                ELSE Fail(a, err))
          ELSE SetAttempt(a, [r EXCEPT !.pc = "mb_defer",
                                       !.block = Block(r.header, r.txs, r.receipts, FALSE, a)])
    /\ UNCHANGED <<now, mining, force, coinbase, delayDuration, quit, quitClosed, quitWork,
                   workClosed, wgWork, loops, chainHeadCh, head, written, events,
                   pool, foreign, alreadyStarted, panicked>>

\* commitNewWork, lines 334-345: Seal, and the block hash on the logs
CommitNewWorkSeal(a) ==
    /\ ~panicked
    /\ UNCHANGED <<snapTest, identVars>>
    /\ attempts[a].pc = "cnw_seal"
    /\ LET r == attempts[a]
       IN \E err \in {"nil", "seal"} :
             SetAttempt(a, IF err = "nil"
                           THEN [r EXCEPT !.pc = "cnw_write",
                                          !.block = Block(r.header, r.txs, r.receipts, TRUE, a),
                                          !.phases = @ \cup {"Seal"}]
                           ELSE Fail(a, err))
    /\ UNCHANGED <<now, mining, force, coinbase, delayDuration, quit, quitClosed, quitWork,
                   workClosed, wgWork, loops, chainHeadCh, head, written, events,
                   pool, foreign, alreadyStarted, panicked>>

\* a commitNewWork that ignores WriteBlockWithState's error
AfterWrite_Ignored(err) == "cnw_sleep"

\* commitNewWork, lines 347-349: where the attempt goes on WriteBlockWithState's
\* result
AfterWrite(err) == IF err = "nil" THEN "cnw_sleep" ELSE AfterError(err)

\* commitNewWork, lines 347-350: WriteBlockWithState, which makes a block
\* higher than the head the new head, then the sleep of delayDuration
CommitNewWorkWrite(a) ==
    /\ ~panicked
    /\ UNCHANGED <<snapTest, identVars>>
    /\ attempts[a].pc = "cnw_write"
    /\ LET r == attempts[a]
       IN \E err \in {"nil", "write"} :
             /\ SetAttempt(a, IF AfterWrite(err) = "cnw_sleep"
                              THEN [r EXCEPT !.pc = "cnw_sleep",
                                             !.lastErr = IF err = "nil" THEN @ ELSE err,
                                             !.wake = now + delayDuration,
                                             !.phases = IF err = "nil" THEN @ \cup {"Write"}
                                                        ELSE @]
                              ELSE [Fail(a, err) EXCEPT !.pc = AfterWrite(err)])
             /\ written' = IF err = "nil" THEN written \cup {r.block} ELSE written
             /\ head' = IF err = "nil" /\ r.block.header.number > head.number
                        THEN r.block.header ELSE head
    /\ UNCHANGED <<now, mining, force, coinbase, delayDuration, quit, quitClosed, quitWork,
                   workClosed, wgWork, loops, chainHeadCh, events,
                   pool, foreign, alreadyStarted, panicked>>

\* commitNewWork, lines 350-356: the sleep is over; the two events are sent,
\* the first into the head-event loop's channel
CommitNewWorkEmit(a) ==
    /\ ~panicked
    /\ UNCHANGED <<snapTest, identVars>>
    /\ attempts[a].pc = "cnw_sleep"
    /\ now >= attempts[a].wake
    /\ Len(chainHeadCh) < chainHeadChanSize
    /\ LET r == attempts[a]
       IN /\ SetAttempt(a, [r EXCEPT !.pc = "mb_defer", !.wake = 0,
                                     !.phases = @ \cup {"Emit"}])
          /\ events' = events \cup {[typ |-> "ChainHead", block |-> r.block],
                                    [typ |-> "NewMined", block |-> r.block]}
          /\ chainHeadCh' = Append(chainHeadCh, r.block.header.coinbase)
    /\ UNCHANGED <<now, mining, force, coinbase, delayDuration, quit, quitClosed, quitWork,
                   workClosed, wgWork, loops, head, written,
                   pool, foreign, alreadyStarted, panicked>>

\* mintBlock, lines 169-174: the deferred function
MintBlockDefer(a) ==
    /\ ~panicked
    /\ UNCHANGED <<snapTest, identVars>>
    /\ attempts[a].pc = "mb_defer"
    /\ quitWork' = 0
    /\ wgWork' = wgWork - 1
    /\ SetAttempt(a, [NoAttempt EXCEPT !.pc = "done", !.ts = attempts[a].ts])
    /\ UNCHANGED <<now, mining, force, coinbase, delayDuration, quit, quitClosed,
                   workClosed, loops, chainHeadCh, head, written, events,
                   pool, foreign, alreadyStarted, panicked>>

(* --------------------------- the slot loop ---------------------------- *)
\* A mintLoop goroutine: where it is (pc), the channel its select evaluated
\* worker.quit to (q), and the target of its timer (to).  A select that finds
\* one case ready takes it; a goroutine blocked in its select is woken by the
\* first case to become ready ("ml_quit": by the close of q); with both
\* ready either is taken.
NoLoop == [pc |-> "none", q |-> 0, to |-> 0]

Started(l) == loops[l].pc # "none"
Live(l) == loops[l].pc \notin {"none", "done"}

SetLoop(l, r) == loops' = [loops EXCEPT ![l] = r]

\* a timer set to the boundary of the slot t is in
NextSlot_Floor(t) == t - (t % Interval)

\* a timer set to the smallest boundary that is not before t
NextSlot_Ceil(t) == ((t + Interval - 1) \div Interval) * Interval

\* mintLoop, lines 139 and 157: the next slot boundary after t
NextSlot(t) == t + (Interval - (t % Interval))

\* a cancel that closes the channel and leaves the handle set
CancelWork_KeepsHandle ==
    /\ quitWork' = quitWork
    /\ workClosed' = IF quitWork # 0 THEN workClosed \cup {quitWork} ELSE workClosed
    /\ panicked' = (quitWork # 0 /\ quitWork \in workClosed)

\* close(worker.quitWork) under quitWorkRW, lines 93-99 and 143-149
CancelWork ==
    /\ quitWork' = 0
    /\ workClosed' = IF quitWork # 0 THEN workClosed \cup {quitWork} ELSE workClosed
    /\ panicked' = (quitWork # 0 /\ quitWork \in workClosed)

\* a start that does not look at mining
StartSwaps_Always(m) == TRUE

\* start, line 109: the compare-and-swap of mining from 0 to 1 succeeds
StartSwaps(m) == m = 0

\* start, lines 108-115
Start(f) ==
    /\ ~panicked
    /\ UNCHANGED <<snapTest, identVars>>
    /\ IF StartSwaps(mining)
       THEN /\ \E l \in Loops : ~Started(l)
            /\ LET l == CHOOSE l \in Loops : ~Started(l) /\ \A k \in 1..(l - 1) : Started(k)
               IN SetLoop(l, [NoLoop EXCEPT !.pc = "ml_init"])
            /\ mining' = 1
            /\ force' = f
            /\ UNCHANGED alreadyStarted
       ELSE /\ alreadyStarted' = TRUE
            /\ UNCHANGED <<mining, force, loops>>
    /\ UNCHANGED <<now, coinbase, delayDuration, quit, quitClosed, quitWork,
                   workClosed, wgWork, attempts, chainHeadCh, head, written, events,
                   pool, foreign, panicked>>

\* the slot loops after a close of channel c: one blocked on c in its select,
\* its timer not yet due, is woken by the close
Woken(c) ==
    [l \in Loops |->
        IF loops[l].pc = "ml_wait" /\ loops[l].q = c /\ now < loops[l].to
        THEN [loops[l] EXCEPT !.pc = "ml_quit"] ELSE loops[l]]

\* stop, lines 226-232: closing a closed channel panics
Stop ==
    /\ ~panicked
    /\ UNCHANGED <<snapTest, identVars>>
    /\ IF mining = 1
       THEN /\ mining' = 0
            /\ quitClosed' = quitClosed \cup {quit}
            /\ panicked' = (quit \in quitClosed)
            /\ loops' = Woken(quit)
       ELSE UNCHANGED <<mining, quitClosed, panicked, loops>>
    /\ UNCHANGED <<now, force, coinbase, delayDuration, quit, quitWork,
                   workClosed, wgWork, attempts, chainHeadCh, head, written, events,
                   pool, foreign, alreadyStarted>>

\* mintLoop, lines 118-139: the sign function, the interval, the first timer
MintLoopInit(l) ==
    /\ ~panicked
    /\ UNCHANGED <<snapTest, identVars>>
    /\ loops[l].pc = "ml_init"
    /\ SetLoop(l, [loops[l] EXCEPT !.pc = "ml_select", !.to = NextSlot(now)])
    /\ UNCHANGED <<now, mining, force, coinbase, delayDuration, quit, quitClosed, quitWork,
                   workClosed, wgWork, attempts, chainHeadCh, head, written, events,
                   pool, foreign, alreadyStarted, panicked>>

\* mintLoop, lines 141-158: entering the select evaluates worker.quit
MintLoopSelect(l) ==
    /\ ~panicked
    /\ UNCHANGED <<snapTest, identVars>>
    /\ loops[l].pc = "ml_select"
    /\ SetLoop(l, [loops[l] EXCEPT
                      !.pc = IF quit \in quitClosed /\ now < loops[l].to
                             THEN "ml_quit" ELSE "ml_wait",
                      !.q = quit])
    /\ UNCHANGED <<now, mining, force, coinbase, delayDuration, quit, quitClosed, quitWork,
                   workClosed, wgWork, attempts, chainHeadCh, head, written, events,
                   pool, foreign, alreadyStarted, panicked>>

\* mintLoop, lines 142-149: the timer (utimerTo, lines 475-488) has sent its
\* target; the attempt in flight is cancelled
MintLoopTick(l) ==
    /\ ~panicked
    /\ UNCHANGED <<snapTest, identVars>>
    /\ loops[l].pc = "ml_wait"
    /\ now >= loops[l].to
    /\ CancelWork
    /\ SetLoop(l, [loops[l] EXCEPT !.pc = "ml_join"])
    /\ UNCHANGED <<now, mining, force, coinbase, delayDuration, quit, quitClosed,
                   wgWork, attempts, chainHeadCh, head, written, events,
                   pool, foreign, alreadyStarted>>

\* mintLoop, line 150: wgWork.Wait()
MintLoopJoin(l) ==
    /\ ~panicked
    /\ UNCHANGED <<snapTest, identVars>>
    /\ loops[l].pc = "ml_join"
    /\ wgWork = 0
    /\ SetLoop(l, [loops[l] EXCEPT !.pc = "ml_spawn"])
    /\ UNCHANGED <<now, mining, force, coinbase, delayDuration, quit, quitClosed, quitWork,
                   workClosed, wgWork, attempts, chainHeadCh, head, written, events,
                   pool, foreign, alreadyStarted, panicked>>

\* mintLoop, lines 152-157: a new attempt for the tick's slot, the next timer
MintLoopSpawn(l) ==
    /\ ~panicked
    /\ UNCHANGED <<snapTest, identVars>>
    /\ loops[l].pc = "ml_spawn"
    /\ \E a \in Attempts : ~Spawned(a)
    /\ LET a == CHOOSE a \in Attempts : ~Spawned(a) /\ \A k \in 1..(a - 1) : Spawned(k)
       IN SetAttempt(a, [NoAttempt EXCEPT !.pc = "mb_start", !.ts = Slot(loops[l].to)])
    /\ wgWork' = wgWork + 1
    /\ SetLoop(l, [loops[l] EXCEPT !.pc = "ml_select", !.to = NextSlot(now)])
    /\ UNCHANGED <<now, mining, force, coinbase, delayDuration, quit, quitClosed, quitWork,
                   workClosed, chainHeadCh, head, written, events,
                   pool, foreign, alreadyStarted, panicked>>

\* mintLoop, lines 158-160: the quit channel of the select is closed; a new
\* one is made
MintLoopQuit(l) ==
    /\ ~panicked
    /\ UNCHANGED <<snapTest, identVars>>
    /\ \/ loops[l].pc = "ml_quit"
       \/ loops[l].pc = "ml_wait" /\ loops[l].q \in quitClosed
    /\ quit' = quit + 1
    /\ SetLoop(l, [loops[l] EXCEPT !.pc = "done"])
    /\ UNCHANGED <<now, mining, force, coinbase, delayDuration, quitClosed, quitWork,
                   workClosed, wgWork, attempts, chainHeadCh, head, written, events,
                   pool, foreign, alreadyStarted, panicked>>

(* ------------------------- the head-event loop ------------------------ *)
\* an update that cancels on every block while mining
Cancels_AnyBlock(m, blkCoinbase, cb) == m # 0

\* update, lines 91-92: the event cancels the attempt in flight
Cancels(m, blkCoinbase, cb) == m # 0 /\ blkCoinbase # cb

\* update, lines 89-101: one chain-head event
Update ==
    /\ ~panicked
    /\ UNCHANGED <<snapTest, identVars>>
    /\ chainHeadCh # << >>
    /\ chainHeadCh' = Tail(chainHeadCh)
    /\ IF Cancels(mining, Head(chainHeadCh), coinbase)
       THEN CancelWork
       ELSE UNCHANGED <<quitWork, workClosed, panicked>>
    /\ UNCHANGED <<now, mining, force, coinbase, delayDuration, quit, quitClosed,
                   wgWork, loops, attempts, head, written, events,
                   pool, foreign, alreadyStarted>>

(* --------------------------- the environment -------------------------- *)
\* the wall clock advances, up to a limit
Tick(limit) ==
    /\ ~panicked
    /\ UNCHANGED <<snapTest, identVars>>
    /\ now < limit
    /\ now' = now + 1
    /\ UNCHANGED <<mining, force, coinbase, delayDuration, quit, quitClosed, quitWork,
                   workClosed, wgWork, loops, attempts, chainHeadCh, head, written, events,
                   pool, foreign, alreadyStarted, panicked>>

\* another candidate's block for the current slot becomes the head; its
\* ChainHead event reaches the head-event loop
ForeignBlock ==
    /\ ~panicked
    /\ UNCHANGED <<snapTest, identVars>>
    /\ foreign < MaxForeign
    /\ Len(chainHeadCh) < chainHeadChanSize
    /\ Slot(now) > head.time
    /\ head' = Header(head.number + 1, Slot(now), Foreign, head.root)
    /\ chainHeadCh' = Append(chainHeadCh, Foreign)
    /\ foreign' = foreign + 1
    /\ UNCHANGED <<now, mining, force, coinbase, delayDuration, quit, quitClosed, quitWork,
                   workClosed, wgWork, loops, attempts, written, events,
                   pool, alreadyStarted, panicked>>

(* ------------------------- the snapshot test -------------------------- *)
\* snapshots a test run sets, and the times it may give them
MaxSnapshots == 2
MaxSnapTime == 3

\* the keys of account "snapshot01" and the values put under them
Keys == {"aaaaaa", "bbbbbb"}
Values == {"1", "2"}
Nil == "nil"

\* a state with nothing put
EmptyState == [k \in Keys |-> Nil]

\* TestSnapshot: where it is (pc), the content of state1 (kv), the committed
\* root (root), the content of state2, on which the manager works (loaded),
\* the snapshot times the manager holds (times), the time of the last
\* SetSnapshot call (lastSet), and the root the raw database records for
\* block 0 (rawdb)
NoSnap ==
    [pc |-> "put", kv |-> EmptyState, root |-> EmptyState, loaded |-> EmptyState,
     times |-> {}, lastSet |-> 0, rawdb |-> EmptyState]

\* the largest of a set of times, 0 for none
MaxOf(ts) == IF ts = {} THEN 0 ELSE CHOOSE t \in ts : \A u \in ts : u <= t

\* SnapshotManager.GetLastSnapshotTime: the latest snapshot time
GetLastSnapshotTime(sn) ==
    [err |-> sn.times = {}, time |-> MaxOf(sn.times)]

\* SnapshotManager.GetPrevSnapshotTime: the snapshot time before t, 0 if t is
\* the first; an error if t is no snapshot time
GetPrevSnapshotTime(sn, t) ==
    [err |-> t \notin sn.times, time |-> MaxOf({u \in sn.times : u < t})]

\* SnapshotManager.GetSnapshotMsg: the value under key in the state the
\* snapshot of time t was taken of; an error if t is no snapshot time
GetSnapshotMsg(sn, key, t) ==
    [err |-> t \notin sn.times,
     value |-> IF t \in sn.times THEN sn.loaded[key] ELSE Nil]

\* snapshot_test.go, lines 36-39: state1.Put
SnapPut(k, v) ==
    /\ snapTest.pc = "put"
    /\ snapTest.kv[k] = Nil
    /\ snapTest' = [snapTest EXCEPT !.kv[k] = v]
    /\ UNCHANGED <<workerVars, identVars>>

\* snapshot_test.go, lines 41-51: Commit, and the commit of the trie
SnapCommit ==
    /\ snapTest.pc = "put"
    /\ snapTest.kv # EmptyState
    /\ snapTest' = [snapTest EXCEPT !.pc = "reload", !.root = snapTest.kv]
    /\ UNCHANGED <<workerVars, identVars>>

\* a reload from the empty root
Reloaded_Empty(root) == EmptyState

\* snapshot_test.go, line 53: state.New(root, cachedb)
Reloaded(root) == root

\* snapshot_test.go, lines 53-54: state2 and its snapshot manager
SnapReload ==
    /\ snapTest.pc = "reload"
    /\ snapTest' = [snapTest EXCEPT !.pc = "set", !.loaded = Reloaded(snapTest.root)]
    /\ UNCHANGED <<workerVars, identVars>>

\* snapshot_test.go, lines 55-58: SetSnapshot(t, BlockInfo of block 0), for
\* times later than the snapshots set before
SnapSetSnapshot(t) ==
    /\ snapTest.pc = "set"
    /\ Cardinality(snapTest.times) < MaxSnapshots
    /\ t > MaxOf(snapTest.times)
    /\ snapTest' = [snapTest EXCEPT !.times = @ \cup {t}, !.lastSet = t]
    /\ UNCHANGED <<workerVars, identVars>>

\* snapshot_test.go, lines 59-66: rawdb.WriteSnapshot of block 0's root
SnapWrite ==
    /\ snapTest.pc = "set"
    /\ snapTest.times # {}
    /\ snapTest' = [snapTest EXCEPT !.pc = "read", !.rawdb = snapTest.root]
    /\ UNCHANGED <<workerVars, identVars>>

(* ------------------------ the producer identity ---------------------- *)
KeyIds == 1..MaxKeys
Names == {"me", SysName}

\* crypto.FromECDSAPub(&privkey.PublicKey): the public key of a private key
PubKey(k) == << "pub", k >>

\* the key lists setCoinbase is called with: one key, or two of which the
\* second is an older one
KeyLists == {<< k >> : k \in KeyIds} \cup {<< k + 1, k >> : k \in 1..(MaxKeys - 1)}

Identities == [name : Names, keys : KeyLists]

\* the account manager's state a sign call is made on: per account, the
\* public keys that may sign for it (none, the first key, every key)
AccountStates ==
    { [n \in Names |-> {}],
      [n \in Names |-> {PubKey(1)}],
      [n \in Names |-> {PubKey(k) : k \in KeyIds}] }

\* accountDB.IsValidSign(name, pubKey) returns no error
IsValidSign(accounts, name, pub) == pub \in accounts[name]

NoSetter == [pc |-> "idle", name |-> "", keys |-> << >>, i |-> 0]
NoHook == [pc |-> "idle", accounts |-> [n \in Names |-> {}], keys |-> << >>, i |-> 0,
           reads |-> << >>, signed |-> 0, err |-> FALSE]

\* the worker's fields that setCoinbase and the sign function leave alone
identityFrame == <<now, mining, force, delayDuration, quit, quitClosed, quitWork,
                   workClosed, wgWork, loops, attempts, chainHeadCh, head, written,
                   events, pool, foreign, alreadyStarted, panicked, snapTest>>

\* the identity after setCoinbase(name, keys) has returned
InitIdentity(name, keys) ==
    /\ mu = "free"
    /\ privKeys = keys
    /\ pubKeys = [j \in 1..Len(keys) |-> PubKey(keys[j])]
    /\ setter = NoSetter
    /\ hook = NoHook

\* setCoinbase, lines 240-242: the call takes the mutex
SetCoinbaseLock(id) ==
    /\ hook.pc # "panic"
    /\ setter.pc = "idle"
    /\ mu = "free"
    /\ mu' = "setCoinbase"
    /\ setter' = [pc |-> "name", name |-> id.name, keys |-> id.keys, i |-> 1]
    /\ UNCHANGED <<coinbase, privKeys, pubKeys, hook, identityFrame>>

\* setCoinbase, line 243
SetCoinbaseName ==
    /\ hook.pc # "panic"
    /\ setter.pc = "name"
    /\ coinbase' = setter.name
    /\ setter' = [setter EXCEPT !.pc = "keys"]
    /\ UNCHANGED <<mu, privKeys, pubKeys, hook, identityFrame>>

\* setCoinbase, line 244
SetCoinbaseKeys ==
    /\ hook.pc # "panic"
    /\ setter.pc = "keys"
    /\ privKeys' = setter.keys
    /\ setter' = [setter EXCEPT !.pc = "clear"]
    /\ UNCHANGED <<mu, coinbase, pubKeys, hook, identityFrame>>

\* setCoinbase, line 245
SetCoinbaseClear ==
    /\ hook.pc # "panic"
    /\ setter.pc = "clear"
    /\ pubKeys' = << >>
    /\ setter' = [setter EXCEPT !.pc = "append"]
    /\ UNCHANGED <<mu, coinbase, privKeys, hook, identityFrame>>

\* setCoinbase, lines 246-250: one iteration of the loop over the keys
SetCoinbaseAppend ==
    /\ hook.pc # "panic"
    /\ setter.pc = "append"
    /\ setter.i <= Len(setter.keys)
    /\ pubKeys' = Append(pubKeys, PubKey(setter.keys[setter.i]))
    /\ setter' = [setter EXCEPT !.i = @ + 1]
    /\ UNCHANGED <<mu, coinbase, privKeys, hook, identityFrame>>

\* setCoinbase, lines 242 and 251: the deferred Unlock
SetCoinbaseUnlock ==
    /\ hook.pc # "panic"
    /\ setter.pc = "append"
    /\ setter.i > Len(setter.keys)
    /\ mu' = "free"
    /\ setter' = NoSetter
    /\ UNCHANGED <<coinbase, privKeys, pubKeys, hook, identityFrame>>

\* a sign function that signs with the keys whose check failed
SignsWith_Failed(ok) == ~ok

\* the sign function, lines 130-131: the key signs if the check returned no
\* error
SignsWith(ok) == ok

\* the sign function, lines 124-129: the engine calls it on a state; the
\* range clause evaluates worker.privKeys
SignFnCall(accounts) ==
    /\ hook.pc \in {"idle", "done"}
    /\ hook' = [NoHook EXCEPT !.pc = "iter", !.accounts = accounts,
                              !.keys = privKeys, !.i = 1]
    /\ UNCHANGED <<mu, coinbase, privKeys, pubKeys, setter, identityFrame>>

\* the sign function, lines 129-134: one iteration over the keys, reading
\* worker.coinbase and worker.pubKeys[index]; an index past the end of
\* worker.pubKeys panics; after the last key the error is returned
SignFnIter ==
    /\ hook.pc = "iter"
    /\ hook' = IF hook.i > Len(hook.keys)
               THEN [hook EXCEPT !.pc = "done", !.err = TRUE]
               ELSE IF hook.i > Len(pubKeys)
               THEN [hook EXCEPT !.pc = "panic"]
               ELSE LET ok == IsValidSign(hook.accounts, coinbase, pubKeys[hook.i])
                        rd == [cb |-> coinbase, pub |-> pubKeys[hook.i], ok |-> ok]
                    IN IF SignsWith(ok)
                       THEN [hook EXCEPT !.pc = "done", !.signed = hook.keys[hook.i],
                                         !.reads = Append(@, rd)]
                       ELSE [hook EXCEPT !.i = @ + 1, !.reads = Append(@, rd)]
    /\ UNCHANGED <<mu, coinbase, privKeys, pubKeys, setter, identityFrame>>

(* -------------------------- the specification ------------------------- *)
\* a chain whose head is a foreign block 1 of slot t
Chain(t) == Header(1, t, Foreign, GenesisRoot)

\* the producer identity, the post-seal delay, the transaction pool and the
\* chain a worker runs with
Scenario(cb, d, p, h) == [coinbase |-> cb, delay |-> d, pool |-> p, head |-> h]

\* newWorker, lines 72-79, shortly before the slot boundary at 2 * Interval
InitWorker(sc) ==
    /\ now = 2 * Interval - 1
    /\ mining = 0
    /\ force = FALSE
    /\ coinbase = sc.coinbase
    /\ delayDuration = sc.delay
    /\ quit = 0
    /\ quitClosed = {}
    /\ quitWork = 0
    /\ workClosed = {}
    /\ wgWork = 0
    /\ loops = [l \in Loops |-> NoLoop]
    /\ attempts = [a \in Attempts |-> NoAttempt]
    /\ chainHeadCh = << >>
    /\ head = sc.head
    /\ written = {}
    /\ events = {}
    /\ pool = sc.pool
    /\ foreign = 0
    /\ alreadyStarted = FALSE
    /\ panicked = FALSE
    /\ snapTest = NoSnap
    /\ InitIdentity(sc.coinbase, << 1 >>)

\* the worker on a chain whose head is a slot behind
Init == InitWorker(Scenario("me", 0, PoolOne, Chain(0)))

Attempt(a) ==
    \/ MintBlockStart(a)
    \/ MintBlockLoop(a)
    \/ MintBlockNap(a)
    \/ CommitNewWorkPre(a)
    \/ CommitNewWorkWait(a)
    \/ CommitNewWorkBuild(a)
    \/ CommitTransactions(a)
    \/ CommitNewWorkFinal(a)
    \/ CommitNewWorkSeal(a)
    \/ CommitNewWorkWrite(a)
    \/ CommitNewWorkEmit(a)
    \/ MintBlockDefer(a)

MintLoop(l) ==
    \/ MintLoopInit(l)
    \/ MintLoopSelect(l)
    \/ MintLoopTick(l)
    \/ MintLoopJoin(l)
    \/ MintLoopSpawn(l)
    \/ MintLoopQuit(l)

\* the worker under start and stop calls, around a slot boundary
Next ==
    \/ \E f \in BOOLEAN : Start(f)
    \/ Stop
    \/ \E l \in Loops : MintLoop(l)
    \/ \E a \in Attempts : Attempt(a)
    \/ Update
    \/ Tick(MaxTime)
    \/ ForeignBlock

Spec == Init /\ [][Next]_vars

\* The worker after newWorker and start(force), lines 72-79 and 108-115,
\* shortly before the slot boundary at 2 * Interval
InitAttempt(f, sc) ==
    /\ now = 2 * Interval - 1
    /\ mining = 1
    /\ force = f
    /\ coinbase = sc.coinbase
    /\ delayDuration = sc.delay
    /\ quit = 0
    /\ quitClosed = {}
    /\ quitWork = 0
    /\ workClosed = {}
    /\ wgWork = 0
    /\ loops = [l \in Loops |-> IF l = 1 THEN [NoLoop EXCEPT !.pc = "ml_init"] ELSE NoLoop]
    /\ attempts = [a \in Attempts |-> NoAttempt]
    /\ chainHeadCh = << >>
    /\ head = sc.head
    /\ written = {}
    /\ events = {}
    /\ pool = sc.pool
    /\ foreign = 0
    /\ alreadyStarted = FALSE
    /\ panicked = FALSE
    /\ snapTest = NoSnap
    /\ InitIdentity(sc.coinbase, << 1 >>)

Scenarios ==
    { Scenario("me", 0, PoolPrivileged, Chain(Interval)),
      Scenario("me", MaxDelay, PoolNonces, Chain(0)),
      Scenario(SysName, 0, PoolGas, Chain(Interval)),
      Scenario("me", Interval + MaxDelay, PoolFill, Chain(Interval)) }

\* one slot's attempt: the slot loop, the head-event loop, stop, the clock and
\* foreign blocks around it
NextAttempt ==
    \/ Stop
    \/ \E l \in Loops : MintLoop(l)
    \/ \E a \in Attempts : Attempt(a)
    \/ Update
    \/ Tick(MaxAttemptTime)
    \/ ForeignBlock

SpecAttempt == (\E sc \in Scenarios : InitAttempt(TRUE, sc)) /\ [][NextAttempt]_vars

\* TestSnapshot, lines 29-96, over the values it may put and the snapshot
\* times it may set
NextSnapshot ==
    \/ \E k \in Keys, v \in Values : SnapPut(k, v)
    \/ SnapCommit
    \/ SnapReload
    \/ \E t \in 1..MaxSnapTime : SnapSetSnapshot(t)
    \/ SnapWrite

SpecSnapshot == Init /\ [][NextSnapshot]_vars

\* setCoinbase calls and calls of the sign function, in any interleaving
NextIdentity ==
    \/ \E id \in Identities : SetCoinbaseLock(id)
    \/ SetCoinbaseName
    \/ SetCoinbaseKeys
    \/ SetCoinbaseClear
    \/ SetCoinbaseAppend
    \/ SetCoinbaseUnlock
    \/ \E accounts \in AccountStates : SignFnCall(accounts)
    \/ SignFnIter

SpecIdentity == Init /\ [][NextIdentity]_vars

(* ------------------------------ properties ---------------------------- *)
EventsOf(a) == {e \in events : e.block.by = a}
BlocksOf(a) == {b \in written : b.by = a}

\* C1: an attempt whose drain loop, after accepting a transaction, returned
\* on its closed quit channel persists no block and sends no event.
C1_CancelledDrainPublishesNothing ==
    \A a \in Attempts :
        (attempts[a].drainEnd = "quit" /\ attempts[a].cnt > 0) =>
            /\ attempts[a].phases \cap {"Write", "Emit"} = {}
            /\ BlocksOf(a) = {}
            /\ EventsOf(a) = {}

\* C2: at most one mintBlock goroutine runs at any instant.
C2_OneAttemptInFlight == Cardinality({a \in Attempts : Running(a)}) <= 1

\* C3: once no closed quit channel is left for a slot loop to receive from,
\* exactly one mintLoop runs while mining is active and none while it is idle.
QuitPending ==
    \/ quit \in quitClosed
    \/ \E l \in Loops : loops[l].pc = "ml_quit"
    \/ \E l \in Loops : loops[l].pc = "ml_wait" /\ loops[l].q \in quitClosed

C3_OneLoopPerStart ==
    ~QuitPending => Cardinality({l \in Loops : Live(l)}) = mining

\* C4: a start() on an active worker changes neither mining nor force and
\* spawns no mintLoop; the start that activates an idle worker spawns exactly
\* one.
C4_StartOnce ==
    [][/\ (mining = 1 /\ mining' = 1) =>
            /\ force' = force
            /\ {l \in Loops : loops'[l].pc # "none"} = {l \in Loops : Started(l)}
       /\ (mining = 0 /\ mining' = 1) =>
            Cardinality({l \in Loops : loops'[l].pc # "none"})
                = Cardinality({l \in Loops : Started(l)}) + 1]_vars

\* C4 witness: a start() found the worker active, and one mintLoop runs
C4_Witness ==
    /\ alreadyStarted
    /\ mining = 1
    /\ Cardinality({l \in Loops : Started(l)}) = 1
    /\ force = FALSE

\* C5: after the drain loop skipped a privileged transaction, the queue's
\* head is no longer that transaction.
C5_SkipShiftsQueue ==
    \A a \in Attempts :
        (attempts[a].pc = "ct_loop" /\ attempts[a].skipped # NilTx) =>
            Peek(attempts[a].queue) # attempts[a].skipped

\* an iteration of a's drain loop that applied the queue's head
Applied(a) ==
    /\ attempts[a].pc = "ct_loop"
    /\ attempts'[a].pc = "ct_loop"
    /\ attempts'[a] # attempts[a]
    /\ attempts'[a].skipped = attempts[a].skipped

\* C6: each verdict of an applied transaction has its queue action: nil
\* appends the transaction and its receipt, counts it and shifts;
\* GasLimitReached and NonceTooHigh pop; NonceTooLow and any other error
\* shift; and the drain loop ends without an error, for one of its four
\* reasons.
C6_VerdictQueueAction ==
    [][\A a \in Attempts :
          /\ Applied(a) =>
                LET r == attempts[a]
                    w == attempts'[a]
                    tx == Peek(r.queue)
                IN /\ w.lastApply \in {"nil", "ErrGasLimitReached", "ErrNonceTooLow",
                                       "ErrNonceTooHigh", "ErrOther"}
                   /\ w.queue = IF w.lastApply \in {"ErrGasLimitReached", "ErrNonceTooHigh"}
                                THEN Tail(r.queue) ELSE Shift(r.queue)
                   /\ IF w.lastApply = "nil"
                      THEN /\ w.txs = Append(r.txs, tx)
                           /\ w.receipts = Append(r.receipts, Receipt(tx))
                           /\ w.cnt = r.cnt + 1
                      ELSE /\ w.txs = r.txs
                           /\ w.receipts = r.receipts
                           /\ w.cnt = r.cnt
          /\ (attempts[a].pc = "ct_loop" /\ attempts'[a].pc # "ct_loop") =>
                /\ attempts'[a].pc = "cnw_final"
                /\ attempts'[a].lastErr = "none"
                /\ attempts'[a].drainEnd \in {"quit", "gas", "time", "empty"}]_vars

\* C6 witness: a transaction larger than the gas left was applied; its sender
\* is gone from the queue, another sender's transactions are still queued
C6_Witness ==
    \E a \in Attempts :
        /\ attempts[a].pc = "ct_loop"
        /\ attempts[a].lastApply = "ErrGasLimitReached"
        /\ attempts[a].queue # << >>

\* C7 as claimed: commitNewWork is not called again by an attempt whose last
\* error was a failure of Finalize, Seal or WriteBlockWithState, a candidacy
\* failure, a stale parent or an expired slot.
C7_NoRetryAfterFailure ==
    \A a \in Attempts :
        attempts[a].pc = "cnw_pre" =>
            attempts[a].lastErr \notin {"finalize", "seal", "write", "candidate", "old", "ignore"}

\* C7 as amended: a candidacy failure, a stale parent and an expired slot end
\* the attempt; a failure of Finalize, Seal or WriteBlockWithState (or of the
\* calls before the drain loop) sends the attempt back to the top of its
\* retry loop, from where it calls commitNewWork again for the same slot.
C7_TerminalAndRetriedErrors ==
    [][\A a \in Attempts :
          LET r == attempts[a]
              w == attempts'[a]
          IN /\ (w.lastErr # r.lastErr /\ w.lastErr # "none") =>
                   /\ w.ts = r.ts
                   /\ w.lastErr \in {"candidate", "old", "ignore", "quit"} =>
                         w.pc = "mb_defer"
                   /\ w.lastErr \in {"finalize", "seal", "write", "prepare"} =>
                         w.pc = "mb_loop" /\ w.wake = 0
                   /\ w.lastErr = "wait" =>
                         w.pc = "mb_nap" /\ w.wake = now + Interval \div 10
             /\ (r.pc = "mb_loop" /\ w.pc = "cnw_pre") =>
                   w.ts = r.ts /\ w.lastErr = r.lastErr]_vars

\* C7 witness: commitNewWork was called again after WriteBlockWithState failed
C7_Witness ==
    \E a \in Attempts : attempts[a].pc = "cnw_pre" /\ attempts[a].lastErr = "write"

\* C8: the block a commitNewWork call returns, sealed or not, has its parent's
\* number plus one and the slot timestamp of the attempt.
C8_BlockNumberAndTime ==
    \A a \in Attempts :
        attempts[a].block # NilBlock =>
            /\ attempts[a].block.header.number = attempts[a].parent.number + 1
            /\ attempts[a].block.header.time = attempts[a].ts

\* C8 witness: mintBlock got a sealed block on a parent above block 1
C8_Witness ==
    \E a \in Attempts :
        /\ attempts[a].pc = "mb_defer"
        /\ attempts[a].block.sealed
        /\ attempts[a].parent.number = 2

\* C9: every event sent carries a block that WriteBlockWithState persisted,
\* and an attempt whose Finalize, Seal or WriteBlockWithState failed has sent
\* no event.
C9_EventsAfterWrite ==
    /\ \A e \in events : e.block \in written
    /\ \A a \in Attempts :
          /\ "Emit" \in attempts[a].phases => "Write" \in attempts[a].phases
          /\ attempts[a].lastErr \in {"finalize", "seal", "write"} => EventsOf(a) = {}

\* C9 witness: both events of a persisted block were sent
C9_Witness ==
    \E a \in Attempts :
        /\ "Emit" \in attempts[a].phases
        /\ \E b \in written :
              {[typ |-> "ChainHead", block |-> b], [typ |-> "NewMined", block |-> b]}
                  \subseteq EventsOf(a)

\* C10: when mining is idle at the end of the drain loop, commitNewWork
\* returns the block of the work's header, transactions and receipts
\* unsealed, having called none of Finalize, Seal and WriteBlockWithState and
\* sent no event.
C10_IdleReturnsLocalBlock ==
    [][\A a \in Attempts :
          (attempts[a].pc = "cnw_final" /\ attempts'[a] # attempts[a] /\ mining = 0) =>
              LET r == attempts[a]
              IN /\ attempts'[a].pc = "mb_defer"
                 /\ attempts'[a].block = Block(r.header, r.txs, r.receipts, FALSE, a)
                 /\ attempts'[a].phases = {}
                 /\ attempts'[a].lastErr = "none"
                 /\ written' = written
                 /\ events' = events
                 /\ head' = head]_vars

\* C10 witness: an attempt returned an unsealed block with a transaction
C10_Witness ==
    \E a \in Attempts :
        /\ attempts[a].pc = "mb_defer"
        /\ mining = 0
        /\ attempts[a].block # NilBlock
        /\ ~attempts[a].block.sealed
        /\ Len(attempts[a].block.txs) > 0
        /\ attempts[a].phases = {}
        /\ EventsOf(a) = {}

\* C11: a failed apply leaves the work's state at the savepoint taken before
\* it and the transactions, receipts and counter as they were; a successful
\* one keeps its mutations and appends one transaction and one receipt.
C11_RevertOnFailure ==
    [][\A a \in Attempts :
          Applied(a) =>
              LET r == attempts[a]
                  w == attempts'[a]
                  tx == Peek(r.queue)
                  out == Apply(tx, r.gas, r.state)
              IN IF out.err # "nil"
                 THEN /\ w.lastApply = out.err
                      /\ w.state = r.state
                      /\ w.txs = r.txs
                      /\ w.receipts = r.receipts
                      /\ w.cnt = r.cnt
                 ELSE /\ w.lastApply = "nil"
                      /\ w.state = out.state
                      /\ w.state # r.state
                      /\ w.txs = Append(r.txs, tx)
                      /\ w.receipts = Append(r.receipts, Receipt(tx))]_vars

\* C11 witness: after an accepted transaction of sender 2, the execution of
\* its next one failed; the sender's nonce is the one the accepted left
C11_Witness ==
    \E a \in Attempts :
        /\ attempts[a].pc = "ct_loop"
        /\ attempts[a].lastApply = "ErrOther"
        /\ Len(attempts[a].txs) = 1
        /\ attempts[a].state[2] = attempts[a].parent.root[2] + 1

RECURSIVE GasUsed(_)
GasUsed(txs) == IF txs = << >> THEN 0 ELSE Head(txs).gas + GasUsed(Tail(txs))

\* C12: the gas pool is never negative, the gas of a work's transactions
\* never exceeds the block gas limit, an accepted transaction lowers the
\* pool, and a transaction larger than the pool is refused with
\* GasLimitReached and not included.
C12_GasPoolWithinLimit ==
    [][\A a \in Attempts :
          LET r == attempts[a]
              w == attempts'[a]
              tx == Peek(r.queue)
          IN /\ w.gas >= 0
             /\ GasUsed(w.txs) <= BlockGasLimit
             /\ (r.pc = "cnw_build" /\ w.pc = "ct_loop") => w.gas = BlockGasLimit
             /\ (Applied(a) /\ w.lastApply = "nil") => w.gas < r.gas
             /\ (Applied(a) /\ tx.nonce = r.state[tx.from] /\ tx.gas > r.gas) =>
                    /\ w.lastApply = "ErrGasLimitReached"
                    /\ w.txs = r.txs
                    /\ w.gas = r.gas]_vars

\* C12 witness: two accepted transactions used the whole gas limit
C12_Witness ==
    \E a \in Attempts :
        /\ attempts[a].pc = "cnw_final"
        /\ attempts[a].drainEnd = "gas"
        /\ attempts[a].gas = 0
        /\ Len(attempts[a].txs) = 2
        /\ GasUsed(attempts[a].txs) = BlockGasLimit

\* the nonces of sender s's transactions in txs, in order
NoncesOf(txs, s) ==
    LET q == SelectSeq(txs, LAMBDA t : t.from = s)
    IN [i \in 1..Len(q) |-> q[i].nonce]

\* C13: in a work's accepted transactions, each sender's nonces are its
\* nonce in the parent state, then the next, and so on without a gap.
C13_NoncesGapless ==
    \A a \in Attempts : \A s \in Senders :
        LET ns == NoncesOf(attempts[a].txs, s)
        IN \A i \in 1..Len(ns) : ns[i] = attempts[a].parent.root[s] + (i - 1)

\* C13 witness: a sealed block holds two transactions of one sender
C13_Witness ==
    \E a \in Attempts :
        /\ attempts[a].block.sealed
        /\ Len(NoncesOf(attempts[a].block.txs, 1)) = 2

\* C14: a sender whose head transaction was refused with NonceTooHigh or
\* GasLimitReached is gone from the queue: none of its transactions is
\* queued, applied or included later in the same drain.
C14_PoppedSenderStaysOut ==
    [][\A a \in Attempts :
          LET r == attempts[a]
              w == attempts'[a]
          IN /\ Applied(a) => Peek(r.queue).from \notin r.popped
             /\ \A i \in 1..Len(w.queue) : Head(w.queue[i]).from \notin w.popped
             /\ (Applied(a) /\ w.lastApply \in {"ErrGasLimitReached", "ErrNonceTooHigh"}) =>
                    /\ Peek(r.queue).from \in w.popped
                    /\ w.txs = r.txs]_vars

\* C14 witness: sender 2 was popped with transactions left, and the sealed
\* block holds a transaction of sender 1 only
C14_Witness ==
    \E a \in Attempts :
        /\ attempts[a].popped = {2}
        /\ attempts[a].lastErr = "none"
        /\ attempts[a].block.sealed
        /\ Len(attempts[a].block.txs) = 1
        /\ attempts[a].block.txs[1].from = 1

\* C15: an attempt for slot ts has terminated when the clock reaches
\* ts + Interval, whatever the post-seal delay: the sleep after
\* WriteBlockWithState, which the attempt cannot leave early, ends before
\* the end of its slot.
C15_AttemptEndsWithinSlot ==
    \A a \in Attempts :
        attempts[a].pc = "cnw_sleep" =>
            attempts[a].wake < attempts[a].ts + Interval

\* a cancel ran: the head-event loop took an event, or a slot loop its tick
CancelRan ==
    \/ Len(chainHeadCh') < Len(chainHeadCh)
    \/ \E l \in Loops : loops[l].pc = "ml_wait" /\ loops'[l].pc = "ml_join"

\* C16: the handle never holds a closed channel, so every close is of an open
\* channel, which it clears from the handle; and a cancel that finds the
\* handle cleared changes nothing.
C16_CancelSingleShot ==
    [][/\ quitWork' # 0 => quitWork' \notin workClosed'
       /\ workClosed' # workClosed =>
             /\ quitWork # 0
             /\ quitWork \notin workClosed
             /\ workClosed' = workClosed \cup {quitWork}
             /\ quitWork' = 0
       /\ (CancelRan /\ quitWork = 0) =>
             /\ quitWork' = 0
             /\ workClosed' = workClosed
             /\ attempts' = attempts
             /\ panicked' = panicked]_vars

\* C16 witness: the head-event loop closed the channel of an attempt during
\* its drain; the slot loop's tick at the end of the slot then found the
\* handle cleared, the attempt still running
C16_Witness ==
    \E a \in Attempts :
        /\ attempts[a].pc = "cnw_sleep"
        /\ attempts[a].drainEnd = "quit"
        /\ attempts[a].wake < attempts[a].ts + Interval
        /\ a \in workClosed
        /\ quitWork = 0
        /\ loops[1].pc = "ml_join"
        /\ loops[1].to = attempts[a].ts + Interval

\* txs is the start of all
IsPrefix(txs, all) == Len(txs) <= Len(all) /\ txs = SubSeq(all, 1, Len(txs))

C19_CandidacyAfterTimeChecks ==
    [][\A a \in Attempts :
          (attempts[a].pc = "mb_loop" /\ attempts'[a].lastErr = "candidate") =>
              /\ PreError(now, attempts[a].ts, head) = "nil"
              /\ ~WaitParent(now, attempts[a].ts, head)]_vars

\* C20: a commitNewWork call at or after ts + Interval returns the expired
\* slot's error, which ends the attempt with nothing built, persisted or
\* sent; a call before ts + Interval does not return it.
C20_ExpiredSlotIsTerminal ==
    [][\A a \in Attempts :
          (attempts[a].pc = "cnw_pre" /\ attempts'[a] # attempts[a]) =>
              IF now >= attempts[a].ts + Interval
              THEN /\ attempts'[a].lastErr = "ignore"
                   /\ attempts'[a].pc = "mb_defer"
                   /\ attempts'[a].header = NilHeader
                   /\ attempts'[a].block = NilBlock
                   /\ written' = written
                   /\ events' = events
                   /\ head' = head
              ELSE attempts'[a].lastErr # "ignore"]_vars

\* C20 witness: commitNewWork was called exactly at the end of the slot
C20_Witness ==
    \E a \in Attempts :
        /\ attempts[a].pc = "mb_defer"
        /\ attempts[a].lastErr = "ignore"
        /\ now = attempts[a].ts + Interval

C21_HeaderAfterParent ==
    [][\A a \in Attempts :
          LET r == attempts[a]
              w == attempts'[a]
          IN /\ w.header # NilHeader => w.header.time > w.parent.time
             /\ (r.pc = "cnw_pre" /\ w # r /\ r.parent.time >= r.ts) =>
                    /\ w.lastErr = IF now >= r.ts + Interval THEN "ignore" ELSE "old"
                    /\ w.pc = "mb_defer"
                    /\ w.header = NilHeader
                    /\ w.block = NilBlock]_vars

\* C21 witness: the attempt ended on a parent of its own slot
C21_Witness ==
    \E a \in Attempts :
        /\ attempts[a].pc = "mb_defer"
        /\ attempts[a].lastErr = "old"
        /\ head.time = attempts[a].ts

\* C22: after "wait for last block arrived" the attempt naps a tenth of the
\* interval, then returns if its quit channel is closed and else reads the
\* head again and calls commitNewWork for the same slot; it naps after no
\* other error.
C22_WaitNapsAndRetries ==
    [][\A a \in Attempts :
          LET r == attempts[a]
              w == attempts'[a]
          IN /\ (r.pc = "cnw_wait" /\ w # r) =>
                    IF WaitParent(now, r.ts, r.parent)
                    THEN /\ w.pc = "mb_nap"
                         /\ w.lastErr = "wait"
                         /\ w.wake = now + Interval \div 10
                         /\ w.ts = r.ts
                    ELSE w.pc = "cnw_build"
             /\ (r.pc = "mb_nap" /\ w # r) =>
                    /\ now >= r.wake
                    /\ w.pc = "mb_loop"
                    /\ w.ts = r.ts
             /\ (r.pc = "mb_loop" /\ r.lastErr = "wait" /\ w # r) =>
                    /\ w.ts = r.ts
                    /\ a \in workClosed => w.pc = "mb_defer"
                    /\ w.pc = "cnw_pre" => w.parent = head
             /\ w.pc = "mb_nap" => w.lastErr = "wait"]_vars

\* C22 witness: after the nap commitNewWork is called on a head that arrived
\* meanwhile
C22_Witness ==
    \E a \in Attempts :
        /\ attempts[a].pc = "cnw_pre"
        /\ attempts[a].lastErr = "wait"
        /\ attempts[a].parent.number = 2

\* C23: on a chain-head event, update closes and clears the quit channel of
\* the attempt in flight if mining is not 0 and the block's coinbase is not
\* the worker's; on any other event it leaves the channel as it is.
C23_UpdateCancelsForeignWhileMining ==
    [][chainHeadCh # << >> /\ chainHeadCh' = Tail(chainHeadCh) =>
          IF mining # 0 /\ Head(chainHeadCh) # coinbase
          THEN /\ quitWork' = 0
               /\ workClosed' = IF quitWork # 0 THEN workClosed \cup {quitWork}
                                 ELSE workClosed
          ELSE /\ quitWork' = quitWork
               /\ workClosed' = workClosed]_vars

\* C23 witness: the event of the attempt's own block is consumed and the
\* attempt's quit channel is still published and open
C23_Witness ==
    /\ chainHeadCh = << >>
    /\ foreign = 0
    /\ quitWork # 0
    /\ quitWork \notin workClosed
    /\ attempts[quitWork].pc = "mb_defer"
    /\ \E e \in events : TRUE

\* C24: an iteration of the drain loop that finds the time budget spent or
\* the gas pool under the gas of one action (and the quit channel open)
\* applies nothing and ends the loop; commitNewWork goes on with the
\* transactions accepted until then: Finalize and Seal while mining, the
\* local block otherwise (a failure of Finalize or Seal leaves no block).
C24_BudgetEndsDrain ==
    [][\A a \in Attempts :
          LET r == attempts[a]
              w == attempts'[a]
          IN /\ (/\ r.pc = "ct_loop"
                  /\ w # r
                  /\ a \notin workClosed
                  /\ \/ r.gas < ActionGas
                     \/ now + (2 * Interval) \div 5 >= r.ts + Interval) =>
                    w = [r EXCEPT !.pc = "cnw_final",
                                  !.drainEnd = IF r.gas < ActionGas THEN "gas" ELSE "time"]
             /\ (r.pc \in {"cnw_final", "cnw_seal"} /\ r.drainEnd \in {"gas", "time"}) =>
                    /\ w.pc = "cnw_seal" => w.header.root = r.state /\ w.txs = r.txs
                    /\ w.block # NilBlock =>
                           /\ w.block.txs = r.txs
                           /\ w.block.receipts = r.receipts]_vars

\* C24 witness: a sealed block of the one transaction accepted before the
\* time budget ended the loop on a queue that held more
C24_Witness ==
    \E a \in Attempts :
        /\ attempts[a].drainEnd = "time"
        /\ attempts[a].block.sealed
        /\ Len(attempts[a].block.txs) = 1
        /\ Peek(attempts[a].queue) # NilTx

\* C25: the slots of the attempts one mintLoop starts are strictly
\* increasing, and so are its timer's targets.
C25_SlotsIncrease ==
    [][/\ \A a, b \in Attempts :
             (a < b /\ attempts'[a].pc # "none" /\ attempts'[b].pc # "none") =>
                 attempts'[a].ts < attempts'[b].ts
       /\ \A l \in Loops :
             (loops[l].pc = "ml_spawn" /\ loops'[l] # loops[l]) =>
                 /\ loops'[l].to > loops[l].to
                 /\ \A a \in Attempts : attempts[a].pc # "none" =>
                        attempts[a].ts < Slot(loops'[l].to)]_vars

\* C25 witness: the loop has started its second attempt
C25_Witness ==
    /\ attempts[1].ts = 2 * Interval
    /\ attempts[2].pc # "none"
    /\ attempts[2].ts = 3 * Interval

\* C26 (as stated): the timer's target is the smallest multiple of the
\* interval that is not before the time it is set at.
C26_TargetIsCeiling ==
    [][\A l \in Loops :
          (loops[l].pc \in {"ml_init", "ml_spawn"} /\ loops'[l] # loops[l]) =>
              loops'[l].to = ((now + Interval - 1) \div Interval) * Interval]_vars

\* C26 (amended): the timer's target is the smallest multiple of the
\* interval that is after the time it is set at, a whole interval later when
\* that time is a multiple itself; the tick is not taken before the clock
\* has reached the target.
C26_TargetIsNextBoundary ==
    [][\A l \in Loops :
          /\ (loops[l].pc \in {"ml_init", "ml_spawn"} /\ loops'[l] # loops[l]) =>
                 /\ loops'[l].to > now
                 /\ loops'[l].to - now <= Interval
                 /\ loops'[l].to % Interval = 0
          /\ (loops[l].pc = "ml_wait" /\ loops'[l].pc = "ml_join") =>
                 now >= loops[l].to]_vars

\* C26 witness: a timer set at a multiple of the interval
C26_Witness ==
    \E l \in Loops :
        /\ loops[l].pc = "ml_select"
        /\ now % Interval = 0
        /\ loops[l].to = now + Interval
        /\ \E a \in Attempts : attempts[a].pc = "mb_start"

\* C29 (as stated): a stop() that takes mining from 1 to 0 closes a quit
\* channel that is open, whatever the start and stop calls before it.
C29_StopClosesOpenChannel ==
    [][(mining = 1 /\ mining' = 0) => (quit \notin quitClosed /\ ~panicked')]_vars

\* The attempts under a scheduler that runs every goroutine that can take a
\* step and a clock that advances
SpecAttemptFair ==
    /\ SpecAttempt
    /\ WF_vars(Tick(MaxAttemptTime))
    /\ \A a \in Attempts : WF_vars(Attempt(a))

\* C30: an attempt that is running returns: its retry loop and its drain
\* loop end, whatever the pool holds. (The clock of the model stops at
\* MaxAttemptTime: the statement is about the attempts whose slot ends by
\* then, and an attempt asleep until after that time counts as returning.)
C30_AttemptTerminates ==
    \A a \in Attempts :
        (Running(a) /\ attempts[a].ts + Interval <= MaxAttemptTime)
            ~> \/ attempts[a].pc = "done"
               \/ attempts[a].pc = "cnw_sleep" /\ attempts[a].wake > MaxAttemptTime

\* C30 witness: an attempt whose drain loop span on a privileged transaction
\* at the head of the queue until the time budget ended it is returning
C30_Witness ==
    \E a \in Attempts :
        /\ attempts[a].pc = "mb_defer"
        /\ attempts[a].skipped.typ \in Privileged
        /\ attempts[a].drainEnd = "time"
        /\ attempts[a].block.sealed

\* C27 (as stated): the sign function reads the identity as one setCoinbase
\* call left it, never between the writes of a call: the public key it
\* checks at an index is the one of the private key it iterates at that
\* index.
C27_NoPartialIdentity ==
    \A j \in 1..Len(hook.reads) : hook.reads[j].pub = PubKey(hook.keys[j])

\* C28: the sign function checks the keys in order, each public key against
\* the coinbase; it signs with the private key at the first index whose
\* check passes, and returns the error, having signed nothing, when it has
\* checked every key and none passed.
C28_LowestPassingKeySigns ==
    /\ \A j \in 1..Len(hook.reads) :
           hook.reads[j].ok = (hook.reads[j].pub \in hook.accounts[hook.reads[j].cb])
    /\ hook.pc = "iter" =>
           /\ hook.signed = 0
           /\ \A j \in 1..Len(hook.reads) : ~hook.reads[j].ok
    /\ (hook.pc = "done" /\ hook.err) =>
           /\ hook.signed = 0
           /\ Len(hook.reads) = Len(hook.keys)
           /\ \A j \in 1..Len(hook.reads) : ~hook.reads[j].ok
    /\ (hook.pc = "done" /\ ~hook.err) =>
           LET n == Len(hook.reads)
           IN /\ n >= 1
              /\ hook.signed = hook.keys[n]
              /\ hook.reads[n].ok
              /\ \A j \in 1..(n - 1) : ~hook.reads[j].ok

\* C28 witness: the first key's check failed and the second key signed
C28_Witness ==
    /\ hook.pc = "done"
    /\ ~hook.err
    /\ Len(hook.reads) = 2
    /\ hook.signed = hook.keys[2]
    /\ hook.signed # hook.keys[1]

\* C31 (as stated): whichever way setCoinbase interleaves with a call of the
\* sign function, the index at which the call reads worker.pubKeys is
\* within it: the call does not panic on the index.
C31_HookIndexInRange == hook.pc # "panic"

====
